---- MODULE Spec2Model ----
(***************************************************************************)
(* Model of the reinforcement-learning environment Env and of the parts of *)
(* the surrogate model RL_dNN it drives                                    *)
(* (2_surrogate_model/surrogate_model_verification.py).                    *)
(*                                                                         *)
(* Number representation.  The program computes with floating-point        *)
(* numbers; the model computes with fixed-point integers:                  *)
(*   - density values are counted in quanta of 1e-7, so the guard epsilon  *)
(*     1e-7 of the normalisation is one quantum;                           *)
(*   - probabilities are counted in 1/ProbScale;                           *)
(*   - rewards and action values are counted in 1/RewardScale = 1e-8, so   *)
(*     that the 1e-7 added to dose_punish is 10 units;                     *)
(*   - time is counted in ticks, dt_cyto (1/48 day) being 2 ticks;         *)
(*   - drug concentrations are counted in 1/ConcScale.                     *)
(* The network weights and the kinetic parameters are loaded from files    *)
(* that are not part of the repository: the network output is a            *)
(* nondeterministic choice among RawOutputs, the kinetic rates are the     *)
(* representative values of p_cyto.                                        *)
(***************************************************************************)
EXTENDS Integers, Sequences, FiniteSets, TLC

VARIABLES
    state,                  \* contents of the list object bound to self.state
    predict_CSF1RI_list,    \* history of CSF1R-inhibitor concentrations
    predict_IGF1RI_list,    \* history of IGF1R-inhibitor concentrations
    predict_TC_list,        \* history of tumor-cell-count expectations
    predict_CSF1RI_cum,     \* cumulative CSF1R-inhibitor exposure
    CSF1RI_dose_cum,        \* cumulative CSF1R-inhibitor dose time
    last_state_survival,    \* last recorded state_survival
    time,                   \* elapsed time, in ticks
    ret,                    \* what the last call returned (NoRet: nothing)
    prev,                   \* the references returned by the call before the last
    loc,                    \* arguments and locals of the last step call
    predict_dt,             \* the step interval the caller uses, in ticks
    steps,                  \* number of steps completed since reset
    failed,                 \* a step call raised since the last reset
    wasDone,                \* a step before the last one, since reset, returned done
    lastCall,               \* "init", "reset", "step", "raise" or "call"
    surrogat_model,         \* the RL_dNN object the environments share
    other                   \* the fields of a second Env built on the same model

\* the fields of the first Env, and what its caller holds
envVars == <<state, predict_CSF1RI_list, predict_IGF1RI_list, predict_TC_list,
             predict_CSF1RI_cum, CSF1RI_dose_cum, last_state_survival, time,
             ret, prev, loc, predict_dt, steps, failed, wasDone, lastCall>>

vars == <<envVars, surrogat_model, other>>

-----------------------------------------------------------------------------
(* Bounds of the model *)

\* steps taken in one episode (between two resets)
MaxSteps == 2
\* steps taken after time has reached the upper bound of its normalisation
ExtraSteps == 1

-----------------------------------------------------------------------------
(* Number representation *)

\* 1.0 as a probability
ProbScale == 1000
\* 1.0 as a reward or as an action value (unit 1e-8)
RewardScale == 100000000
\* 1.0 as a drug concentration or dose rate
ConcScale == 16

RECURSIVE SumSeq(_)
SumSeq(s) == IF s = <<>> THEN 0 ELSE s[1] + SumSeq(Tail(s))

RECURSIVE Pow2(_)
Pow2(n) == IF n <= 0 THEN 1 ELSE 2 * Pow2(n - 1)

SeqLast(s) == s[Len(s)]

-----------------------------------------------------------------------------
(* Inputs of the calls *)

\* substep size of the integrators, in ticks
dt_cyto == 2
\* step intervals (predict_dt of main) that are whole multiples of the substep
Intervals == {dt_cyto, 2 * dt_cyto}
\* a positive interval shorter than one substep
ShortIntervals == {1}
\* indices into the two-value action spaces, and one index outside them
ValidActions == {0, 1}
BadActions == {2}
\* episode indices
Episodes == {0, 1}
\* reward_time_weight, in reward units per tick
Lamdas == {0, 300}
\* concentration bins cc, in units of dc
cc == <<1, 2, 3, 4, 5>>
\* initial = [initial_CSF1RI, initial_IGF1RI, initial_TC]; initial_TC = 0.58,
\* in the unit of the expectations (dc / ProbScale)
initial == <<0, 0, 58 * ProbScale>>

\* outputs of the density network over the bins, before clamping
RawOutputs ==
    { <<-3, 0, 0, 0, -1>>,   \* clamps to the zero density
      <<4, 4, 0, 0, 1>>,     \* death probability exactly 0.2
      <<5, 4, 0, -2, 0>>,    \* survival probability exactly 0.9
      <<0, 19, 0, 0, 0>>,    \* survival 0.95, cure 0
      <<99, 0, 0, 0, 0>> }   \* cure probability exactly 0.99

-----------------------------------------------------------------------------
(* RL_dNN: the surrogate model *)

\* exp(log_p_cyto[i]) * q, eta, mu: the kinetic rates, per substep, counted in
\* halvings (exp(-(a+b)*dt_cyto) = 2^-(a+b))
a_c == 1
b_c == 1
a_i == 1
b_i(C_T) == 1 + C_T \div (50 * ProbScale)

\* x * exp(-(a+b)*dt_cyto)
ExpDecay(x, rate) == x \div Pow2(rate)

\* one closed-form update of a concentration c
Update(c, a, b, dose) ==
    LET target == (a * dose) \div (a + b)
    IN  ExpDecay(c - target, a + b) + target

\* int(interval / self.dt_cyto)
itera_cyto(interval) == interval \div dt_cyto

RECURSIVE Trajectory(_, _, _, _, _)
Trajectory(c0, a, b, dose, n) ==
    IF n <= 0 THEN <<>>
    ELSE LET c1 == Update(c0, a, b, dose)
         IN  <<c1>> \o Trajectory(c1, a, b, dose, n - 1)

\* what a call of an integrator yields: the trajectory c it returns, or the
\* IndexError of "c[0] = ..." on the empty tensor torch.empty(0)
Returned(c) == [raised |-> FALSE, c |-> c]
IndexError == [raised |-> TRUE, c |-> <<>>]

\* the integrator with the first assignment "c[0] = <update of c0>" left out
f_CSF1RI_SkipFirst(c_CSF1RI_0, dose_c, interval) ==
    IF itera_cyto(interval) < 1 THEN IndexError
    ELSE Returned(<<c_CSF1RI_0>>
                    \o Trajectory(c_CSF1RI_0, a_c, b_c, dose_c, itera_cyto(interval) - 1))

f_CSF1RI(c_CSF1RI_0, dose_c, interval) ==
    IF itera_cyto(interval) < 1 THEN IndexError
    ELSE Returned(Trajectory(c_CSF1RI_0, a_c, b_c, dose_c, itera_cyto(interval)))

f_IGF1RI(c_IGF1RI_0, dose_I, C_T, interval) ==
    IF itera_cyto(interval) < 1 THEN IndexError
    ELSE Returned(Trajectory(c_IGF1RI_0, a_i, b_i(C_T), dose_I, itera_cyto(interval)))

\* the network output returned as it is, without the replacement
Clamp_None(u) == u

\* uTC_pred[uTC_pred < 0] = 0
Clamp(u) == [k \in DOMAIN u |-> IF u[k] < 0 THEN 0 ELSE u[k]]

\* predict_DRL_FP adding only the final concentration of the interval to the
\* cumulative exposure
predict_DRL_FP_LastOnly(raw, dose_c, CSF1RI_cum, dose_I, c_CSF1RI_0, c_IGF1RI_0, c_T_0, interval) ==
    LET c_CSF1RI == f_CSF1RI(c_CSF1RI_0, dose_c, interval).c
        c_IGF1RI == f_IGF1RI(c_IGF1RI_0, dose_I, c_T_0, interval).c
    IN  [uTC_pred   |-> Clamp(raw),
         CSF1RI_cum |-> CSF1RI_cum + SeqLast(c_CSF1RI),
         c_CSF1RI_k |-> SeqLast(c_CSF1RI),
         c_IGF1RI_k |-> SeqLast(c_IGF1RI)]

\* the four values predict_DRL_FP returns, for the network output raw
predict_DRL_FP(raw, dose_c, CSF1RI_cum, dose_I, c_CSF1RI_0, c_IGF1RI_0, c_T_0, interval) ==
    LET c_CSF1RI == f_CSF1RI(c_CSF1RI_0, dose_c, interval).c
        c_IGF1RI == f_IGF1RI(c_IGF1RI_0, dose_I, c_T_0, interval).c
    IN  [uTC_pred   |-> Clamp(raw),
         CSF1RI_cum |-> CSF1RI_cum + SumSeq(c_CSF1RI),
         c_CSF1RI_k |-> SeqLast(c_CSF1RI),
         c_IGF1RI_k |-> SeqLast(c_IGF1RI)]

\* t_max of main, 200 days, in ticks
t_max == 9600 * dt_cyto

\* RL_dNN.__init__: the kinetic parameters, the bounds lb and ub of the
\* network inputs, the substep size, and the mode flag of the network
\* (a torch module is constructed in training mode)
RL_dNN(dt) ==
    [log_p_cyto |-> <<a_c, b_c, a_i>>,
     lb |-> <<cc[1], dt>>,
     ub |-> <<cc[Len(cc)], t_max>>,
     dt_cyto |-> dt_cyto,
     training |-> TRUE]

\* self.dnn_TC.eval(), the one assignment predict_DRL_FP makes to the model
Eval(model) == [model EXCEPT !.training = FALSE]

-----------------------------------------------------------------------------
(* Env *)

\* np.array([0.0, 1.0]), the dose of each action index
action_c_space == <<0, ConcScale>>
action_I_space == <<0, ConcScale>>

InRange(space, action) == action + 1 \in DOMAIN space
Dose(space, action) == space[action + 1]

\* the dose added to the cumulative dose time, not multiplied by predict_dt
DoseTime_NoInterval(dose_c, dt) == dose_c \div ConcScale

\* dose_c * predict_dt with dose_c 0.0 or 1.0, in ticks
DoseTime(dose_c, dt) == (dose_c * dt) \div ConcScale

\* the 1e-7 of the normalisation, in density quanta
eps == 1
death_threshold == 200
cure_threshold == 990
\* the literal 0.9 of the survival test
survival_bound == 900

\* rl_FP_TC / (np.sum(rl_FP_TC) + 1e-7)
Normalize(rl_FP_TC) ==
    [k \in DOMAIN rl_FP_TC |->
        (rl_FP_TC[k] * ProbScale) \div (SumSeq(rl_FP_TC) + eps)]

\* the weighted sum of the density as predicted, not normalised
Expectation_Unnormalised(rl_FP_TC) ==
    SumSeq([k \in DOMAIN rl_FP_TC |-> rl_FP_TC[k] * cc[k]])

\* np.sum(rl_FP_TC_norm * cc)
Expectation(rl_FP_TC) ==
    LET norm == Normalize(rl_FP_TC)
    IN  SumSeq([k \in DOMAIN norm |-> norm[k] * cc[k]])

\* survival as the complement of the mass of the last three bins
SurvivalProb_Complement(rl_FP_TC) ==
    LET n == Len(rl_FP_TC)
        tail == IF n > 3 THEN SubSeq(rl_FP_TC, n - 2, n) ELSE rl_FP_TC
    IN  ProbScale - (SumSeq(tail) * ProbScale) \div (SumSeq(rl_FP_TC) + eps)

\* np.sum(rl_FP_TC[:-3, :]) / (prob_sum + 1e-7)
SurvivalProb(rl_FP_TC) ==
    LET n == Len(rl_FP_TC)
        head == IF n > 3 THEN SubSeq(rl_FP_TC, 1, n - 3) ELSE <<>>
    IN  (SumSeq(head) * ProbScale) \div (SumSeq(rl_FP_TC) + eps)

DeathProb(survival_prob) == ProbScale - survival_prob

\* the cure probability with the slice [:-1] in place of [:1]
CureProb_AllButLast(rl_FP_TC) ==
    LET n == Len(rl_FP_TC)
        head == IF n > 1 THEN SubSeq(rl_FP_TC, 1, n - 1) ELSE <<>>
    IN  (SumSeq(head) * ProbScale) \div (SumSeq(rl_FP_TC) + eps)

\* np.sum(rl_FP_TC[:1, :]) / (prob_sum + 1e-7)
CureProb(rl_FP_TC) ==
    LET head == IF Len(rl_FP_TC) >= 1 THEN SubSeq(rl_FP_TC, 1, 1) ELSE <<>>
    IN  (SumSeq(head) * ProbScale) \div (SumSeq(rl_FP_TC) + eps)

\* (survival_prob - (1 - death_threshold)) / death_threshold
StateSurvival(survival_prob) ==
    ((survival_prob - (ProbScale - death_threshold)) * ProbScale) \div death_threshold

\* the delta without the episode-index test
SurvivalDelta_NoEpisodeTest(epi, state_survival, last) == state_survival - last

\* the delta with the operands of the difference exchanged
SurvivalDelta_Reversed(epi, state_survival, last) ==
    IF epi = 0 THEN 0 ELSE last - state_survival

\* the delta recorded with state_survival
SurvivalDelta(epi, state_survival, last) ==
    IF epi = 0 THEN 0 ELSE state_survival - last

\* dose_punish without the 1e-7
dose_punish_exact == (Len(action_c_space) - 1) * RewardScale

\* (self.action_c_space.shape[0] - 1) + 1e-7
dose_punish == (Len(action_c_space) - 1) * RewardScale + 10

\* 0.1 * x
Tenth(x) == x \div 10
\* the literal 0.05
Bonus == 5000000

\* the branches under "if not done" with the survival test strict
Shaping_StrictSurvival(reward, death_prob, survival_prob, action_c, action_I, lamda, t, dose_cum) ==
    LET r1 == IF death_prob >= death_threshold \div 2
              THEN reward - Tenth(dose_punish - action_c * RewardScale)
              ELSE IF action_c = 0 THEN reward + Bonus ELSE reward
        r2 == IF survival_prob < survival_bound
              THEN r1 - Tenth(dose_punish - action_I * RewardScale)
              ELSE IF action_I = 0 THEN r1 + Bonus ELSE r1
    IN  IF survival_prob > survival_bound
        THEN r2 + lamda * (t - dose_cum)
        ELSE r2

\* the branches of the reward function under "if not done"
Shaping(reward, death_prob, survival_prob, action_c, action_I, lamda, t, dose_cum) ==
    LET r1 == IF death_prob >= death_threshold \div 2
              THEN reward - Tenth(dose_punish - action_c * RewardScale)
              ELSE IF action_c = 0 THEN reward + Bonus ELSE reward
        r2 == IF survival_prob <= survival_bound
              THEN r1 - Tenth(dose_punish - action_I * RewardScale)
              ELSE IF action_I = 0 THEN r1 + Bonus ELSE r1
    IN  IF survival_prob > survival_bound
        THEN r2 + lamda * (t - dose_cum)
        ELSE r2

\* the reward function with the death test strict
RewardFunction_StrictDeath(death_prob, cure_prob, survival_prob, action_c, action_I, lamda, t, dose_cum) ==
    IF death_prob > death_threshold
    THEN [reward |-> 0 - Tenth(RewardScale), done |-> TRUE]
    ELSE IF cure_prob >= cure_threshold
         THEN [reward |-> Tenth(RewardScale) + RewardScale, done |-> TRUE]
         ELSE [reward |-> Shaping(Tenth(RewardScale), death_prob, survival_prob,
                                  action_c, action_I, lamda, t, dose_cum),
               done |-> FALSE]

\* the reward function with the cure test strict
RewardFunction_StrictCure(death_prob, cure_prob, survival_prob, action_c, action_I, lamda, t, dose_cum) ==
    IF death_prob >= death_threshold
    THEN [reward |-> 0 - Tenth(RewardScale), done |-> TRUE]
    ELSE IF cure_prob > cure_threshold
         THEN [reward |-> Tenth(RewardScale) + RewardScale, done |-> TRUE]
         ELSE [reward |-> Shaping(Tenth(RewardScale), death_prob, survival_prob,
                                  action_c, action_I, lamda, t, dose_cum),
               done |-> FALSE]

\* the reward function with the time bonus outside "if not done"
RewardFunction_BonusAlways(death_prob, cure_prob, survival_prob, action_c, action_I, lamda, t, dose_cum) ==
    LET bonus == IF survival_prob > survival_bound THEN lamda * (t - dose_cum) ELSE 0
    IN  IF death_prob >= death_threshold
        THEN [reward |-> 0 - Tenth(RewardScale) + bonus, done |-> TRUE]
        ELSE IF cure_prob >= cure_threshold
             THEN [reward |-> Tenth(RewardScale) + RewardScale + bonus, done |-> TRUE]
             ELSE [reward |-> Shaping(Tenth(RewardScale), death_prob, survival_prob,
                                      action_c, action_I, lamda, t, dose_cum),
                   done |-> FALSE]

\* the reward function with "done = True" missing from the cure branch
RewardFunction_CureNotDone(death_prob, cure_prob, survival_prob, action_c, action_I, lamda, t, dose_cum) ==
    IF death_prob >= death_threshold
    THEN [reward |-> 0 - Tenth(RewardScale), done |-> TRUE]
    ELSE [reward |-> Shaping(IF cure_prob >= cure_threshold
                             THEN Tenth(RewardScale) + RewardScale
                             ELSE Tenth(RewardScale),
                             death_prob, survival_prob,
                             action_c, action_I, lamda, t, dose_cum),
          done |-> FALSE]

\* the reward function of an environment that ends the episode once time has
\* passed t_max
RewardFunction_TimeLimit(death_prob, cure_prob, survival_prob, action_c, action_I, lamda, t, dose_cum) ==
    IF death_prob >= death_threshold
    THEN [reward |-> 0 - Tenth(RewardScale), done |-> TRUE]
    ELSE IF cure_prob >= cure_threshold
         THEN [reward |-> Tenth(RewardScale) + RewardScale, done |-> TRUE]
         ELSE [reward |-> Shaping(Tenth(RewardScale), death_prob, survival_prob,
                                  action_c, action_I, lamda, t, dose_cum),
               done |-> t > t_max]

\* the reward function of step: the reward and the done flag it returns
RewardFunction(death_prob, cure_prob, survival_prob, action_c, action_I, lamda, t, dose_cum) ==
    LET reward == Tenth(RewardScale)
        terminal ==
            IF death_prob >= death_threshold
            THEN [reward |-> 0 - Tenth(RewardScale), done |-> TRUE]
            ELSE IF cure_prob >= cure_threshold
                 THEN [reward |-> reward + RewardScale, done |-> TRUE]
                 ELSE [reward |-> reward, done |-> FALSE]
    IN  IF ~terminal.done
        THEN [reward |-> Shaping(terminal.reward, death_prob, survival_prob,
                                 action_c, action_I, lamda, t, dose_cum),
              done |-> FALSE]
        ELSE terminal

\* self.time = predict_dt
Advance_Assign(t, dt) == dt

\* self.time += predict_dt
Advance(t, dt) == t + dt

\* list.append(value)
ListAppend(list, value) == Append(list, value)

\* A reference to a list of observations that a caller holds: either the
\* list object self.state is bound to (alias), or a list of its own.
Copy(list) == [alias |-> FALSE, val |-> list]
SameObject(list) == [alias |-> TRUE, val |-> <<>>]
Deref(h) == IF h.alias THEN state ELSE h.val
\* the list a reference denotes once self.state is bound to another object
Detach(h, old) == IF h.alias THEN Copy(old) ELSE h

\* self.state, without the copy
Snapshot_NoCopy(list) == SameObject(list)

\* self.state.copy()
Snapshot(list) == Copy(list)

NoRet == [kind |-> "none"]
NoLoc == [kind |-> "none"]
\* the two references of a returned tuple, as the caller holds them after a
\* further call; old is the list self.state was bound to before that call,
\* rebound tells whether the call bound self.state to another object
Held(r, old, rebound) ==
    IF r.kind = "none" THEN NoRet
    ELSE [kind |-> "held",
          last_state |-> IF rebound THEN Detach(r.last_state, old) ELSE r.last_state,
          now_state  |-> IF rebound THEN Detach(r.now_state, old) ELSE r.now_state]

\* a step interval of one day
DayInterval == 48 * dt_cyto
\* steps of one day that make time reach t_max, the upper bound of the
\* normalisation of time, and ExtraSteps more
LongHorizon == t_max \div DayInterval + ExtraSteps
\* steps explored in one episode: MaxSteps, or LongHorizon for a caller that
\* steps by days
StepCap == IF predict_dt = DayInterval THEN LongHorizon ELSE MaxSteps

TypeOK ==
    /\ \A k \in DOMAIN state : Len(state[k]) = 2
    /\ time \in Nat
    /\ steps \in 0..StepCap
    /\ predict_dt \in Intervals \cup ShortIntervals \cup {DayInterval}
    /\ failed \in BOOLEAN
    /\ wasDone \in BOOLEAN
    /\ lastCall \in {"init", "reset", "step", "raise", "call"}

\* the fields of an Env as __init__ and reset leave them, with what its
\* caller holds: the last result (none) and whether a call has raised
NewEnv ==
    [state |-> <<>>,
     predict_CSF1RI_list |-> <<initial[1]>>,
     predict_IGF1RI_list |-> <<initial[2]>>,
     predict_TC_list |-> <<initial[3]>>,
     predict_CSF1RI_cum |-> 0,
     CSF1RI_dose_cum |-> 0,
     last_state_survival |-> 0,
     time |-> 0,
     ret |-> NoRet,
     failed |-> FALSE]

\* Env.__init__, for a caller whose step interval is one of dts
Constructed(dts) ==
    /\ state = <<>>
    /\ predict_CSF1RI_list = <<initial[1]>>
    /\ predict_IGF1RI_list = <<initial[2]>>
    /\ predict_TC_list = <<initial[3]>>
    /\ predict_CSF1RI_cum = 0
    /\ CSF1RI_dose_cum = 0
    /\ last_state_survival = 0
    /\ time = 0
    /\ ret = NoRet
    /\ prev = NoRet
    /\ loc = NoLoc
    /\ predict_dt \in dts
    /\ steps = 0
    /\ failed = FALSE
    /\ wasDone = FALSE
    /\ lastCall = "init"
    /\ surrogat_model = RL_dNN(predict_dt)
    /\ other = NewEnv

Init == Constructed(Intervals \cup ShortIntervals)

\* reset without "self.state = []"
ResetFields_KeepState ==
    /\ predict_CSF1RI_list' = <<initial[1]>>
    /\ predict_IGF1RI_list' = <<initial[2]>>
    /\ predict_TC_list' = <<initial[3]>>
    /\ predict_CSF1RI_cum' = 0
    /\ CSF1RI_dose_cum' = 0
    /\ last_state_survival' = 0
    /\ time' = 0
    /\ UNCHANGED state

\* reset without "self.last_state_survival = 0"
ResetFields_KeepSurvival ==
    /\ state' = <<>>
    /\ predict_CSF1RI_list' = <<initial[1]>>
    /\ predict_IGF1RI_list' = <<initial[2]>>
    /\ predict_TC_list' = <<initial[3]>>
    /\ predict_CSF1RI_cum' = 0
    /\ CSF1RI_dose_cum' = 0
    /\ time' = 0
    /\ UNCHANGED last_state_survival

\* the fields reset assigns
ResetFields ==
    /\ state' = <<>>
    /\ predict_CSF1RI_list' = <<initial[1]>>
    /\ predict_IGF1RI_list' = <<initial[2]>>
    /\ predict_TC_list' = <<initial[3]>>
    /\ predict_CSF1RI_cum' = 0
    /\ CSF1RI_dose_cum' = 0
    /\ last_state_survival' = 0
    /\ time' = 0

\* Env.reset.  The caller keeps the references the last step returned; a
\* reference to the list self.state was bound to keeps denoting that list.
Reset ==
    /\ ResetFields
    /\ ret' = NoRet
    /\ prev' = Held(ret, state, TRUE)
    /\ loc' = NoLoc
    /\ steps' = 0
    /\ UNCHANGED predict_dt
    /\ failed' = FALSE
    /\ wasDone' = FALSE
    /\ lastCall' = "reset"
    /\ UNCHANGED <<surrogat_model, other>>

\* the arguments and the locals of a step call that returns
StepLocals(action_c, action_I, epi, lamda, raw) ==
    LET dose_c == Dose(action_c_space, action_c)
        dose_I == Dose(action_I_space, action_I)
        out == predict_DRL_FP(raw, dose_c, predict_CSF1RI_cum, dose_I,
                              SeqLast(predict_CSF1RI_list), SeqLast(predict_IGF1RI_list),
                              SeqLast(predict_TC_list), predict_dt)
        survival_prob == SurvivalProb(out.uTC_pred)
        state_survival == StateSurvival(survival_prob)
    IN  [kind |-> "step", action_c |-> action_c, action_I |-> action_I,
         epi |-> epi, lamda |-> lamda, raw |-> raw,
         CSF1RI_cum_0 |-> predict_CSF1RI_cum,
         time |-> Advance(time, predict_dt),
         dose_cum |-> CSF1RI_dose_cum + DoseTime(dose_c, predict_dt),
         rl_FP_TC |-> out.uTC_pred, c_CSF1RI_cum |-> out.CSF1RI_cum,
         c_CSF1RI |-> out.c_CSF1RI_k, c_IGF1RI |-> out.c_IGF1RI_k,
         survival_prob |-> survival_prob,
         death_prob |-> DeathProb(survival_prob),
         cure_prob |-> CureProb(out.uTC_pred),
         state_survival |-> state_survival,
         survival_prob_delta |-> SurvivalDelta(epi, state_survival, last_state_survival),
         last |-> last_state_survival]

\* Env.step, a call that returns.  A caller abandons the episode once a step
\* call has raised: after a raise only reset follows.
Step(action_c, action_I, epi, lamda, raw) ==
    /\ ~failed
    /\ steps < StepCap
    /\ InRange(action_c_space, action_c)
    /\ InRange(action_I_space, action_I)
    /\ itera_cyto(predict_dt) >= 1
    /\ \E l \in {StepLocals(action_c, action_I, epi, lamda, raw)} :
       \E last_state \in {Snapshot(state)} :
       \E state1 \in {ListAppend(state, <<l.state_survival, l.survival_prob_delta>>)} :
       \E rd \in {RewardFunction(l.death_prob, l.cure_prob, l.survival_prob,
                                 action_c, action_I, lamda, l.time, l.dose_cum)} :
        /\ time' = l.time
        /\ CSF1RI_dose_cum' = l.dose_cum
        /\ predict_CSF1RI_cum' = l.c_CSF1RI_cum
        /\ predict_CSF1RI_list' = ListAppend(predict_CSF1RI_list, l.c_CSF1RI)
        /\ predict_IGF1RI_list' = ListAppend(predict_IGF1RI_list, l.c_IGF1RI)
        /\ predict_TC_list' = ListAppend(predict_TC_list, Expectation(l.rl_FP_TC))
        /\ state' = state1
        /\ last_state_survival' = l.state_survival
        /\ ret' = [kind |-> "step", last_state |-> last_state, reward |-> rd.reward,
                   done |-> rd.done,
                   now_state |-> Snapshot(state1)]
        /\ prev' = Held(ret, state, FALSE)
        /\ loc' = l
        /\ steps' = steps + 1
        /\ UNCHANGED predict_dt
        /\ failed' = FALSE
        /\ wasDone' = (wasDone \/ (ret.kind = "step" /\ ret.done))
        /\ lastCall' = "step"
        /\ surrogat_model' = Eval(surrogat_model)
        /\ UNCHANGED other

\* Env.step that checks the two action indices before it assigns anything
StepBadAction_Atomic(action_c, action_I) ==
    /\ ~failed
    /\ steps < StepCap
    /\ ~InRange(action_c_space, action_c) \/ ~InRange(action_I_space, action_I)
    /\ UNCHANGED <<state, predict_CSF1RI_list, predict_IGF1RI_list, predict_TC_list,
                   predict_CSF1RI_cum, CSF1RI_dose_cum, last_state_survival, time,
                   predict_dt, steps, wasDone>>
    /\ ret' = NoRet
    /\ prev' = Held(ret, state, FALSE)
    /\ loc' = [kind |-> "raise", action_c |-> action_c, action_I |-> action_I]
    /\ failed' = TRUE
    /\ lastCall' = "raise"
    /\ UNCHANGED <<surrogat_model, other>>

\* Env.step with an action index outside its action space: the lookup raises
StepBadAction(action_c, action_I) ==
    /\ ~failed
    /\ steps < StepCap
    /\ ~InRange(action_c_space, action_c) \/ ~InRange(action_I_space, action_I)
    /\ time' = Advance(time, predict_dt)
    /\ UNCHANGED <<state, predict_CSF1RI_list, predict_IGF1RI_list, predict_TC_list,
                   predict_CSF1RI_cum, CSF1RI_dose_cum, last_state_survival,
                   predict_dt, steps, wasDone>>
    /\ ret' = NoRet
    /\ prev' = Held(ret, state, FALSE)
    /\ loc' = [kind |-> "raise", action_c |-> action_c, action_I |-> action_I]
    /\ failed' = TRUE
    /\ lastCall' = "raise"
    /\ UNCHANGED <<surrogat_model, other>>

\* Env.step with an interval shorter than one substep: the integrator raises
\* on c[0] of an empty trajectory
StepShortInterval(action_c) ==
    /\ ~failed
    /\ steps < StepCap
    /\ InRange(action_c_space, action_c)
    /\ itera_cyto(predict_dt) < 1
    /\ time' = Advance(time, predict_dt)
    /\ CSF1RI_dose_cum' = CSF1RI_dose_cum
                            + DoseTime(Dose(action_c_space, action_c), predict_dt)
    /\ UNCHANGED <<state, predict_CSF1RI_list, predict_IGF1RI_list, predict_TC_list,
                   predict_CSF1RI_cum, last_state_survival, predict_dt, steps,
                   wasDone>>
    /\ ret' = NoRet
    /\ prev' = Held(ret, state, FALSE)
    /\ loc' = NoLoc
    /\ failed' = TRUE
    /\ lastCall' = "raise"
    /\ surrogat_model' = Eval(surrogat_model)
    /\ UNCHANGED other

StepReturns ==
    \E action_c \in ValidActions, action_I \in ValidActions, epi \in Episodes,
       lamda \in Lamdas, raw \in RawOutputs :
        Step(action_c, action_I, epi, lamda, raw)

StepRaisesIndex ==
    \E action_c \in ValidActions \cup BadActions,
       action_I \in ValidActions \cup BadActions :
        StepBadAction(action_c, action_I)

StepRaisesInterval ==
    \E action_c \in ValidActions :
        StepShortInterval(action_c)

Next ==
    \/ Reset
    \/ StepReturns
    \/ StepRaisesIndex
    \/ StepRaisesInterval

Spec == Init /\ [][Next]_vars

-----------------------------------------------------------------------------
(* The pure functions of the model and of step, called on their own.  loc
   holds the arguments and the result of the last call; the fields of the
   environment stay as constructed. *)

\* the longest interval tried is one tick more than MaxSubsteps substeps
MaxSubsteps == 2
\* the largest mass of one bin of a density tried
MaxMass == 2

\* positive intervals: whole multiples of the substep and others
FunIntervals == 1..(MaxSubsteps * dt_cyto + 1)
\* concentrations between no drug and the full dose
Concentrations == 0..ConcScale
FunDoses == {action_c_space[1], action_c_space[2]}
\* tumour expectations C_T, for the rate b of the IGF1R inhibitor
TumorLevels == {0, initial[3], 2 * initial[3]}
\* non-negative densities over N bins
Densities(N) == [1..N -> 0..MaxMass]

InitFun ==
    /\ Init
    /\ predict_dt = dt_cyto

\* the functions keep no state between calls: a behaviour makes one call
NoCallYet == lastCall = "init"

CallEnvUnchanged ==
    UNCHANGED <<state, predict_CSF1RI_list, predict_IGF1RI_list, predict_TC_list,
                predict_CSF1RI_cum, CSF1RI_dose_cum, last_state_survival, time,
                ret, prev, predict_dt, steps, failed, wasDone,
                surrogat_model, other>>

\* c = model.f_CSF1RI(c0, dose, interval)
Call_f_CSF1RI ==
    /\ NoCallYet
    /\ \E c0 \in Concentrations, dose \in FunDoses, interval \in FunIntervals :
        /\ loc' = [kind |-> "f_CSF1RI", c0 |-> c0, dose |-> dose, C_T |-> 0,
                   a |-> a_c, b |-> b_c, interval |-> interval,
                   out |-> f_CSF1RI(c0, dose, interval)]
        /\ lastCall' = "call"
        /\ CallEnvUnchanged

\* c = model.f_IGF1RI(c0, dose, C_T, interval)
Call_f_IGF1RI ==
    /\ NoCallYet
    /\ \E c0 \in Concentrations, dose \in FunDoses, C_T \in TumorLevels,
       interval \in FunIntervals :
        /\ loc' = [kind |-> "f_IGF1RI", c0 |-> c0, dose |-> dose, C_T |-> C_T,
                   a |-> a_i, b |-> b_i(C_T), interval |-> interval,
                   out |-> f_IGF1RI(c0, dose, C_T, interval)]
        /\ lastCall' = "call"
        /\ CallEnvUnchanged

\* the normalisation and the expectation of step, for a density over the bins cc
Call_Expectation ==
    /\ NoCallYet
    /\ \E rl_FP_TC \in Densities(Len(cc)) :
        /\ loc' = [kind |-> "expectation", rl_FP_TC |-> rl_FP_TC,
                   rl_FP_TC_norm |-> Normalize(rl_FP_TC),
                   expectation |-> Expectation(rl_FP_TC)]
        /\ lastCall' = "call"
        /\ CallEnvUnchanged

\* the three probabilities of step, for a density over N bins
Call_Probabilities ==
    /\ NoCallYet
    /\ \E N \in (Len(cc) - 2)..Len(cc) : \E rl_FP_TC \in Densities(N) :
        /\ loc' = [kind |-> "probabilities", rl_FP_TC |-> rl_FP_TC,
                   survival_prob |-> SurvivalProb(rl_FP_TC),
                   death_prob |-> DeathProb(SurvivalProb(rl_FP_TC)),
                   cure_prob |-> CureProb(rl_FP_TC)]
        /\ lastCall' = "call"
        /\ CallEnvUnchanged

NextFun ==
    \/ Call_f_CSF1RI
    \/ Call_f_IGF1RI
    \/ Call_Expectation
    \/ Call_Probabilities

SpecFun == InitFun /\ [][NextFun]_vars

-----------------------------------------------------------------------------
(* A caller that steps by days and goes on for as long as no step returns
   done: episodes longer than t_max, the upper bound of the normalisation of
   time. *)

\* network outputs tried in long episodes: a density between the thresholds,
\* a death-terminal one and a cure-terminal one
LongRawOutputs == {<<0, 19, 0, 0, 0>>, <<4, 4, 0, 0, 1>>, <<99, 0, 0, 0, 0>>}

InitLong == Constructed({DayInterval})

\* the caller ends the episode at the first step that returns done
LongStepReturns ==
    /\ ~(ret.kind = "step" /\ ret.done)
    /\ \E raw \in LongRawOutputs :
        Step(1, 0, 1, 0, raw)

NextLong ==
    \/ Reset
    \/ LongStepReturns

SpecLong == InitLong /\ [][NextLong]_vars

-----------------------------------------------------------------------------
(* Two environments built on one surrogate model, called in any order.  The
   first is the Env above; the second is the record other.  Its caller, like
   the first one's, abandons the episode once a step call has raised. *)

\* network outputs tried with two environments: a non-terminal density and a
\* death-terminal one
TwoRawOutputs == {<<0, 19, 0, 0, 0>>, <<4, 4, 0, 0, 1>>}

\* Env.step on the fields e of an Env, for a call that returns
StepOf(e, action_c, action_I, epi, lamda, raw, dt) ==
    LET dose_c == Dose(action_c_space, action_c)
        dose_I == Dose(action_I_space, action_I)
        t == Advance(e.time, dt)
        dose_cum == e.CSF1RI_dose_cum + DoseTime(dose_c, dt)
        out == predict_DRL_FP(raw, dose_c, e.predict_CSF1RI_cum, dose_I,
                              SeqLast(e.predict_CSF1RI_list),
                              SeqLast(e.predict_IGF1RI_list),
                              SeqLast(e.predict_TC_list), dt)
        survival_prob == SurvivalProb(out.uTC_pred)
        state_survival == StateSurvival(survival_prob)
        delta == SurvivalDelta(epi, state_survival, e.last_state_survival)
        state1 == ListAppend(e.state, <<state_survival, delta>>)
        rd == RewardFunction(DeathProb(survival_prob), CureProb(out.uTC_pred),
                             survival_prob, action_c, action_I, lamda, t, dose_cum)
    IN  [state |-> state1,
         predict_CSF1RI_list |-> ListAppend(e.predict_CSF1RI_list, out.c_CSF1RI_k),
         predict_IGF1RI_list |-> ListAppend(e.predict_IGF1RI_list, out.c_IGF1RI_k),
         predict_TC_list |-> ListAppend(e.predict_TC_list, Expectation(out.uTC_pred)),
         predict_CSF1RI_cum |-> out.CSF1RI_cum,
         CSF1RI_dose_cum |-> dose_cum,
         last_state_survival |-> state_survival,
         time |-> t,
         ret |-> [kind |-> "step", last_state |-> Snapshot(e.state),
                  reward |-> rd.reward, done |-> rd.done,
                  now_state |-> Snapshot(state1)],
         failed |-> FALSE]

\* other.reset()
OtherReset ==
    /\ other' = NewEnv
    /\ UNCHANGED <<envVars, surrogat_model>>

\* a step of the second Env that also appends its expectation to the history
\* of the first, as if the history list were one object for both
OtherStep_SharedHistory(action_c, action_I, epi, lamda, raw) ==
    /\ ~other.failed
    /\ Len(other.state) < MaxSteps
    /\ itera_cyto(predict_dt) >= 1
    /\ other' = StepOf(other, action_c, action_I, epi, lamda, raw, predict_dt)
    /\ surrogat_model' = Eval(surrogat_model)
    /\ predict_TC_list' = ListAppend(predict_TC_list, Expectation(Clamp(raw)))
    /\ UNCHANGED <<state, predict_CSF1RI_list, predict_IGF1RI_list,
                   predict_CSF1RI_cum, CSF1RI_dose_cum, last_state_survival, time,
                   ret, prev, loc, predict_dt, steps, failed, wasDone, lastCall>>

\* other.step(...), a call that returns
OtherStep(action_c, action_I, epi, lamda, raw) ==
    /\ ~other.failed
    /\ Len(other.state) < MaxSteps
    /\ itera_cyto(predict_dt) >= 1
    /\ other' = StepOf(other, action_c, action_I, epi, lamda, raw, predict_dt)
    /\ surrogat_model' = Eval(surrogat_model)
    /\ UNCHANGED envVars

\* other.step(...) with an interval shorter than one substep
OtherStepShortInterval(action_c) ==
    /\ ~other.failed
    /\ Len(other.state) < MaxSteps
    /\ itera_cyto(predict_dt) < 1
    /\ other' = [other EXCEPT
                    !.time = Advance(other.time, predict_dt),
                    !.CSF1RI_dose_cum = other.CSF1RI_dose_cum
                        + DoseTime(Dose(action_c_space, action_c), predict_dt),
                    !.ret = NoRet,
                    !.failed = TRUE]
    /\ surrogat_model' = Eval(surrogat_model)
    /\ UNCHANGED envVars

TwoStepReturns ==
    \E action_c \in ValidActions, raw \in TwoRawOutputs :
        Step(action_c, 0, 1, 0, raw)

OtherStepReturns ==
    \E action_c \in ValidActions, raw \in TwoRawOutputs :
        OtherStep(action_c, 0, 1, 0, raw)

OtherStepRaisesInterval ==
    \E action_c \in ValidActions :
        OtherStepShortInterval(action_c)

NextTwo ==
    \/ Reset
    \/ TwoStepReturns
    \/ StepRaisesInterval
    \/ OtherReset
    \/ OtherStepReturns
    \/ OtherStepRaisesInterval

SpecTwo == Init /\ [][NextTwo]_vars

-----------------------------------------------------------------------------
(* Properties of the reward function *)

\* the last call was a step that returned
Stepped == lastCall = "step"

\* the time-bonus factor of the last step, elapsed_time - cumulative_dose_time
BonusFactor == loc.time - loc.dose_cum

\* C1: whenever the death probability of a step, 1 - survival_probability, is
\* at least 0.2 (0.2 included), the step returns done = TRUE and reward -0.1,
\* whatever the actions, the episode index and the reward_time_weight.
C1_DeathTerminal ==
    (Stepped /\ ProbScale - SurvivalProb(loc.rl_FP_TC) >= 200)
        => (ret.done /\ ret.reward = 0 - RewardScale \div 10)

\* a step whose death probability is exactly 0.2, with a positive weight
C1_Witness ==
    /\ Stepped
    /\ ProbScale - SurvivalProb(loc.rl_FP_TC) = 200
    /\ SumSeq(loc.rl_FP_TC) > 0
    /\ loc.lamda > 0
    /\ ret.done

\* C2: whenever the death branch does not trigger and the cure probability is
\* at least 0.99 (0.99 included), the step returns done = TRUE and reward 1.1.
C2_CureTerminal ==
    (Stepped /\ loc.death_prob < 200 /\ CureProb(loc.rl_FP_TC) >= 990)
        => (ret.done /\ ret.reward = RewardScale + RewardScale \div 10)

\* a step whose cure probability is exactly 0.99 while the time bonus it
\* would earn is positive
C2_Witness ==
    /\ Stepped
    /\ CureProb(loc.rl_FP_TC) = 990
    /\ loc.death_prob < 200
    /\ loc.lamda * BonusFactor > 0
    /\ ret.done

\* the reward the claim C3 gives to a non-terminal step, for the value
\* maxIndex of "max_action_index" (reward units)
C3_Reward(maxIndex) ==
    RewardScale \div 10
    + (IF loc.death_prob >= 100
       THEN 0 - (maxIndex - loc.action_c * RewardScale) \div 10
       ELSE IF loc.action_c = 0 THEN 5000000 ELSE 0)
    + (IF loc.survival_prob <= 900
       THEN 0 - (maxIndex - loc.action_I * RewardScale) \div 10
       ELSE IF loc.action_I = 0 THEN 5000000 ELSE 0)
    + (IF loc.survival_prob > 900 THEN loc.lamda * BonusFactor ELSE 0)

NonTerminal == Stepped /\ loc.death_prob < 200 /\ loc.cure_prob < 990

\* C3 as claimed: on every non-terminal step the reward is the shaped reward
\* with max_action_index = 1, so that a full dose is penalised by exactly 0.
C3_AsClaimed == NonTerminal => ret.reward = C3_Reward(RewardScale)

\* C3 as amended: on every non-terminal step the reward is the shaped reward
\* with 1 + 1e-7 in the place of max_action_index, so that a full dose in the
\* penalty branch is penalised by 1e-8 and a withheld dose by 0.1 + 1e-8.
C3_ShapedReward ==
    /\ NonTerminal => ret.reward = C3_Reward(RewardScale + 10)
    /\ (NonTerminal /\ loc.death_prob >= 100 /\ loc.action_c = 1 /\ loc.action_I = 1)
          => ret.reward = RewardScale \div 10 - 2

\* a non-terminal step in the penalty branch with the full dose of both drugs
C3_Witness ==
    /\ NonTerminal
    /\ loc.death_prob >= 100
    /\ loc.action_c = 1
    /\ loc.action_I = 1
    /\ ~ret.done

\* C4 as claimed: a step that ends the episode with survival probability
\* above 0.9 still has the time bonus added to its reward.
C4_AsClaimed ==
    (Stepped /\ ret.done /\ loc.survival_prob > 900)
        => ret.reward = RewardScale + RewardScale \div 10 + loc.lamda * BonusFactor

\* C4 as amended: the terminal branches short-circuit the dose-shaping terms
\* and the time bonus alike; a step that ends the episode returns exactly -0.1
\* (death) or 1.1 (cure), and the time bonus is added on the non-terminal
\* steps with survival probability above 0.9 only.
C4_TerminalReward ==
    /\ (Stepped /\ ret.done)
          => ret.reward = IF loc.death_prob >= 200
                          THEN 0 - RewardScale \div 10
                          ELSE RewardScale + RewardScale \div 10
    /\ (Stepped /\ ~ret.done /\ loc.survival_prob > 900)
          => ret.reward - loc.lamda * BonusFactor
                \in {RewardScale \div 10 + k * 5000000 : k \in 0..2}

\* a cure-terminal step at which the time bonus would be positive
C4_Witness ==
    /\ Stepped
    /\ ret.done
    /\ loc.survival_prob > 900
    /\ loc.lamda * BonusFactor > 0
    /\ ret.reward = RewardScale + RewardScale \div 10

-----------------------------------------------------------------------------
(* Properties of the environment state *)

\* C5: as long as no step call raised, time is the sum of the intervals of
\* the steps taken since the last reset, and each of the three histories
\* holds 1 + that number of entries.
C5_TimeAndHistories ==
    ~failed =>
        /\ time = steps * predict_dt
        /\ Len(predict_CSF1RI_list) = 1 + steps
        /\ Len(predict_IGF1RI_list) = 1 + steps
        /\ Len(predict_TC_list) = 1 + steps

\* two steps were taken since the last reset
C5_Witness ==
    /\ Stepped
    /\ steps = 2
    /\ time = 2 * predict_dt
    /\ Len(predict_TC_list) = 3

\* C6: after reset the observation list is empty; every step that returns
\* appends one two-element entry [state_survival, delta] to it, so that its
\* length is the number of steps taken since the last reset.
C6_ObservationHistory ==
    /\ lastCall = "reset" => state = <<>>
    /\ Len(state) = steps
    /\ \A k \in DOMAIN state : Len(state[k]) = 2
    /\ Stepped =>
          /\ state[Len(state)] = <<StateSurvival(loc.survival_prob), loc.survival_prob_delta>>
          /\ SubSeq(state, 1, Len(state) - 1) = Deref(ret.last_state)

\* the second step of an episode has appended its entry
C6_Witness ==
    /\ Stepped
    /\ steps = 2
    /\ Len(state) = 2
    /\ Len(Deref(ret.last_state)) = 1

\* C7: every step called with episode index 0 records delta 0, whatever the
\* last recorded survival value is.
C7_ZeroDeltaInEpisodeZero ==
    (Stepped /\ loc.epi = 0) => state[Len(state)][2] = 0

\* a later step of an episode, called with episode index 0, whose
\* state_survival differs from the one recorded before it
C7_Witness ==
    /\ Stepped
    /\ loc.epi = 0
    /\ steps >= 2
    /\ loc.state_survival # loc.last
    /\ state[Len(state)][2] = 0

\* the values of the mutable fields of a freshly constructed Env
Fresh ==
    /\ state = <<>>
    /\ predict_CSF1RI_list = <<initial[1]>>
    /\ predict_IGF1RI_list = <<initial[2]>>
    /\ predict_TC_list = <<initial[3]>>
    /\ predict_CSF1RI_cum = 0
    /\ CSF1RI_dose_cum = 0
    /\ last_state_survival = 0
    /\ time = 0

\* C8: reset, called in any state, leaves every mutable field at its value in
\* a freshly constructed Env.
C8_ResetIsFresh == lastCall = "reset" => Fresh

\* a reset called after the second step of an episode
C8_Witness ==
    /\ lastCall = "reset"
    /\ prev.kind = "held"
    /\ Len(Deref(prev.now_state)) = 2
    /\ Deref(prev.now_state)[2][1] # 0
    /\ Fresh

\* C9 as claimed: once a step has returned done = TRUE, every later step of
\* the episode returns done = TRUE.
C9_AsClaimed == (Stepped /\ wasDone) => ret.done

\* C9 as amended: the observation list becomes empty again by reset only, and
\* every step computes done afresh from its own density: done is TRUE exactly
\* when death_probability >= 0.2 or cure_probability >= 0.99 at that step, also
\* after a step that returned done = TRUE.
C9_Lifecycle ==
    [][ /\ (state # <<>> /\ state' = <<>>) => lastCall' = "reset"
        /\ lastCall' = "reset" => state' = <<>>
        /\ lastCall' = "step" =>
              /\ state' # <<>>
              /\ ret'.done <=> (loc'.death_prob >= 200 \/ loc'.cure_prob >= 990) ]_vars

\* a step that returns done = FALSE after a step of the same episode that
\* returned done = TRUE
C9_Witness ==
    /\ Stepped
    /\ wasDone
    /\ ~ret.done
    /\ loc.death_prob < 200
    /\ loc.cure_prob < 990

\* C10: now_state is last_state with one entry appended, last_state is the
\* observation list as it was before the call and equals the now_state of the
\* step before it when no reset intervenes, and the lists a call returned are
\* not changed by the next call (step or reset).
C10_Snapshots ==
    [][ /\ lastCall' = "step" =>
              /\ Deref(ret.last_state)' = state
              /\ Deref(ret.now_state)' = state'
              /\ Len(Deref(ret.now_state)') = Len(Deref(ret.last_state)') + 1
              /\ SubSeq(Deref(ret.now_state)', 1, Len(Deref(ret.last_state)'))
                    = Deref(ret.last_state)'
              /\ ret.kind = "step" => Deref(ret.last_state)' = Deref(ret.now_state)
        /\ ret.kind = "step" =>
              /\ Deref(prev.last_state)' = Deref(ret.last_state)
              /\ Deref(prev.now_state)' = Deref(ret.now_state) ]_vars

\* the second step of an episode has returned, the lists of the first step
\* still being held
C10_Witness ==
    /\ Stepped
    /\ prev.kind = "held"
    /\ Len(Deref(prev.now_state)) = 1
    /\ Deref(ret.last_state) = Deref(prev.now_state)
    /\ Len(Deref(ret.now_state)) = 2

-----------------------------------------------------------------------------
(* Properties of the integrators *)

\* the last call was a call of one of the two integrators
IntegratorCalled == lastCall = "call" /\ loc.kind \in {"f_CSF1RI", "f_IGF1RI"}

\* C11: for every interval that is a positive whole multiple n of the substep
\* size, f_CSF1RI and f_IGF1RI return exactly n values: the first is the
\* closed-form update applied once to the initial concentration, every later
\* one is the update applied to its predecessor.
C11_Trajectory ==
    (IntegratorCalled /\ loc.interval % dt_cyto = 0)
        => LET n == loc.interval \div dt_cyto
               c == loc.out.c
           IN  /\ ~loc.out.raised
               /\ Len(c) = n
               /\ c[1] = Update(loc.c0, loc.a, loc.b, loc.dose)
               /\ \A k \in 2..n : c[k] = Update(c[k - 1], loc.a, loc.b, loc.dose)

\* f_IGF1RI over two substeps, with a dose, where both updates change the value
C11_Witness ==
    /\ IntegratorCalled
    /\ loc.kind = "f_IGF1RI"
    /\ loc.interval = 2 * dt_cyto
    /\ loc.dose > 0
    /\ loc.C_T > 0
    /\ Len(loc.out.c) = 2
    /\ loc.out.c[1] # loc.c0
    /\ loc.out.c[2] # loc.out.c[1]

-----------------------------------------------------------------------------
(* Properties of the density and of what step derives from it *)

\* C12: the density predict_DRL_FP returns has one value per concentration
\* bin and every value is non-negative: a negative network output is
\* replaced by 0, a non-negative one is returned unchanged.
C12_DensityNonNegative ==
    Stepped
        => /\ Len(loc.rl_FP_TC) = Len(cc)
           /\ \A k \in 1..Len(cc) :
                /\ loc.rl_FP_TC[k] >= 0
                /\ loc.raw[k] < 0 => loc.rl_FP_TC[k] = 0
                /\ loc.raw[k] >= 0 => loc.rl_FP_TC[k] = loc.raw[k]

\* a step whose network output has a negative and a positive value
C12_Witness ==
    /\ Stepped
    /\ \E k \in 1..Len(cc) : loc.raw[k] < 0
    /\ \E k \in 1..Len(cc) : loc.raw[k] > 0 /\ loc.rl_FP_TC[k] = loc.raw[k]

\* the density of the last step sums to zero
ZeroDensity == SumSeq(loc.rl_FP_TC) = 0

\* C13: a step whose predicted density sums to zero raises no error: the
\* normalised density is all zeros, the tumour expectation is 0, survival is
\* 0, death is 1 and cure is 0, and the step completes as a death-terminal
\* step (done = TRUE, reward -0.1) that extends every history and the
\* observation list by one entry.
C13_ZeroDensityStep ==
    (Stepped /\ ZeroDensity)
        => /\ Normalize(loc.rl_FP_TC) = [k \in 1..Len(cc) |-> 0]
           /\ SeqLast(predict_TC_list) = 0
           /\ loc.survival_prob = 0
           /\ loc.death_prob = ProbScale
           /\ loc.cure_prob = 0
           /\ ret.done
           /\ ret.reward = 0 - RewardScale \div 10
           /\ Len(predict_CSF1RI_list) = steps + 1
           /\ Len(predict_IGF1RI_list) = steps + 1
           /\ Len(predict_TC_list) = steps + 1
           /\ Len(state) = steps
           /\ Len(Deref(ret.now_state)) = Len(Deref(ret.last_state)) + 1

\* a second step with a zero density, after a step that was not terminal
C13_Witness ==
    /\ Stepped
    /\ ZeroDensity
    /\ steps = 2
    /\ ~wasDone
    /\ ret.done
    /\ Len(state) = 2

\* the last call computed the expectation of a density
ExpectationCalled == lastCall = "call" /\ loc.kind = "expectation"

\* the bin-weighted sum of the density as predicted
WeightedSum(rl_FP_TC) == SumSeq([k \in 1..Len(cc) |-> rl_FP_TC[k] * cc[k]])

\* C14 as claimed: for every non-negative density the expectation step
\* computes (density divided by its sum plus epsilon, then the bin-weighted
\* sum) equals the bin-weighted sum of the raw density divided by the
\* unnormalised sum.
C14_AsClaimed ==
    ExpectationCalled
        => /\ SumSeq(loc.rl_FP_TC) # 0
           /\ loc.expectation
                = (WeightedSum(loc.rl_FP_TC) * ProbScale) \div SumSeq(loc.rl_FP_TC)

\* C14, amended: the expectation step computes is the bin-weighted sum of the
\* raw density divided by the sum plus epsilon, up to the rounding of one
\* unit per bin: it is 0 for the zero density, where the division by the
\* unnormalised sum is undefined, and it never exceeds the quotient by the
\* unnormalised sum.
C14_Expectation ==
    ExpectationCalled
        => LET S == SumSeq(loc.rl_FP_TC)
               W == WeightedSum(loc.rl_FP_TC)
               E == loc.expectation
           IN  /\ E * (S + eps) <= W * ProbScale
               /\ W * ProbScale < E * (S + eps) + (S + eps) * SumSeq(cc)
               /\ S = 0 => E = 0
               /\ S > 0 => E * S <= W * ProbScale

\* a density with a positive sum whose expectation differs from the quotient
\* by the unnormalised sum
C14_Witness ==
    /\ ExpectationCalled
    /\ SumSeq(loc.rl_FP_TC) > 1
    /\ loc.expectation > 0
    /\ loc.expectation
         < (WeightedSum(loc.rl_FP_TC) * ProbScale) \div SumSeq(loc.rl_FP_TC)

\* C16 as claimed: for every positive interval that is not a whole multiple of
\* the substep size, an interval shorter than one substep included, the
\* integrators use interval / substep truncated toward zero as the number of
\* substeps and return a trajectory of exactly that many values without
\* failing.
C16_AsClaimed ==
    (IntegratorCalled /\ loc.interval > 0 /\ loc.interval % dt_cyto # 0)
        => /\ ~loc.out.raised
           /\ Len(loc.out.c) = loc.interval \div dt_cyto

\* the last call computed the three probabilities of a density
ProbabilitiesCalled == lastCall = "call" /\ loc.kind = "probabilities"

\* the mass of the bins 1..n of a density
Mass(rl_FP_TC, n) == SumSeq([k \in 1..n |-> rl_FP_TC[k]])

\* C17: for a non-negative density over N bins with sum S, survival is the
\* mass of all bins except the last three divided by S + epsilon, death is
\* exactly 1 - survival, cure is the mass of the lowest bin divided by
\* S + epsilon; hence 0 <= cure <= survival <= 1 whenever N >= 4.
C17_Probabilities ==
    ProbabilitiesCalled
        => LET N == Len(loc.rl_FP_TC)
               S == SumSeq(loc.rl_FP_TC)
           IN  /\ loc.survival_prob
                    = (Mass(loc.rl_FP_TC, N - 3) * ProbScale) \div (S + eps)
               /\ loc.death_prob = ProbScale - loc.survival_prob
               /\ loc.cure_prob = (loc.rl_FP_TC[1] * ProbScale) \div (S + eps)
               /\ N >= 4 => /\ 0 <= loc.cure_prob
                            /\ loc.cure_prob <= loc.survival_prob
                            /\ loc.survival_prob <= ProbScale

\* a density over five bins with mass in the lowest bin, in another surviving
\* bin and in the last three bins
C17_Witness ==
    /\ ProbabilitiesCalled
    /\ Len(loc.rl_FP_TC) = 5
    /\ 0 < loc.cure_prob
    /\ loc.cure_prob < loc.survival_prob
    /\ loc.survival_prob < ProbScale
    /\ loc.rl_FP_TC[5] > 0

-----------------------------------------------------------------------------
(* Properties of the accumulated quantities *)

\* C18: every step passes the stored predict_CSF1RI_cum to the surrogate
\* model and stores back that value plus the sum of the CSF1R-inhibitor
\* trajectory of the interval, so that the stored value is the sum of all
\* substep concentrations since the last reset: it is 0 after reset, grows by
\* the sum of the trajectory at each step, never decreases while the
\* concentrations are non-negative, and a call that raises leaves it alone.
C18_CumulativeExposure ==
    [][ /\ lastCall' = "reset" => predict_CSF1RI_cum' = 0
        /\ lastCall' = "step"
            => LET c == f_CSF1RI(SeqLast(predict_CSF1RI_list),
                                 Dose(action_c_space, loc'.action_c), predict_dt).c
               IN  /\ loc'.CSF1RI_cum_0 = predict_CSF1RI_cum
                   /\ predict_CSF1RI_cum' = predict_CSF1RI_cum + SumSeq(c)
                   /\ (\A k \in 1..Len(c) : c[k] >= 0)
                        => predict_CSF1RI_cum' >= predict_CSF1RI_cum
        /\ lastCall' = "raise" => predict_CSF1RI_cum' = predict_CSF1RI_cum
      ]_vars

\* a second dosed step over two substeps, after a first dosed step
C18_Witness ==
    /\ Stepped
    /\ steps = 2
    /\ predict_dt = 2 * dt_cyto
    /\ loc.CSF1RI_cum_0 > 0
    /\ loc.action_c = 1
    /\ predict_CSF1RI_cum > loc.CSF1RI_cum_0 + SeqLast(predict_CSF1RI_list)

DosedInterval(action_c, dt) == IF action_c = 1 THEN dt ELSE 0

\* C20: with action indices in {0, 1} and positive intervals,
\* 0 <= CSF1RI_dose_cum <= time: reset sets both to 0, every step adds its
\* interval to time and, if its action_c index is 1, to CSF1RI_dose_cum, so
\* CSF1RI_dose_cum is the sum of the intervals of the dosed steps; the factor
\* time - CSF1RI_dose_cum of the time bonus is never negative, and is 0 after
\* a step exactly when it was 0 before and the step gave the dose.
C20_DoseTime ==
    [][ /\ 0 <= CSF1RI_dose_cum' /\ CSF1RI_dose_cum' <= time'
        /\ lastCall' = "reset" => (time' = 0 /\ CSF1RI_dose_cum' = 0)
        /\ lastCall' = "step"
            => /\ time' = time + predict_dt
               /\ CSF1RI_dose_cum'
                    = CSF1RI_dose_cum + DosedInterval(loc'.action_c, predict_dt)
               /\ (time' - CSF1RI_dose_cum' = 0)
                    <=> (time - CSF1RI_dose_cum = 0 /\ loc'.action_c = 1)
               /\ loc'.time - loc'.dose_cum = time' - CSF1RI_dose_cum'
      ]_vars

\* two steps, the first with the dose and the second without
C20_Witness ==
    /\ Stepped
    /\ steps = 2
    /\ loc.action_c = 0
    /\ CSF1RI_dose_cum = predict_dt
    /\ time = 2 * predict_dt
    /\ BonusFactor = predict_dt

-----------------------------------------------------------------------------
(* Properties of environments that share a model *)

\* a call of the first Env alone: its reset, or its step with the arguments
\* of the call
EnvAlone ==
    \/ Reset
    \/ /\ lastCall' = "step"
       /\ Step(loc'.action_c, loc'.action_I, loc'.epi, loc'.lamda, loc'.raw)
    \/ StepRaisesIndex
    \/ StepRaisesInterval

\* a call of the second Env alone: its reset, or its step with any arguments
OtherAlone ==
    \/ other' = NewEnv
    \/ \E action_c \in ValidActions, action_I \in ValidActions, epi \in Episodes,
          lamda \in Lamdas, raw \in RawOutputs :
            /\ ~other.failed
            /\ itera_cyto(predict_dt) >= 1
            /\ other' = StepOf(other, action_c, action_I, epi, lamda, raw, predict_dt)
    \/ \E action_c \in ValidActions :
            /\ ~other.failed
            /\ itera_cyto(predict_dt) < 1
            /\ other'.time = other.time + predict_dt
            /\ other'.failed
            /\ other'.state = other.state
            /\ other'.predict_TC_list = other.predict_TC_list

\* C15: two Env instances that share one surrogate model are independent.
\* Under every interleaving of their reset and step calls, whatever changes
\* the fields, histories, accumulators or results of one instance is a call of
\* that instance, acting as it does when the instance runs alone; and no call
\* changes the parameters, the bounds or the substep size of the shared model.
C15_Independent ==
    /\ [][envVars' # envVars => EnvAlone]_vars
    /\ [][other' # other => OtherAlone]_vars
    /\ [][ /\ surrogat_model'.log_p_cyto = surrogat_model.log_p_cyto
           /\ surrogat_model'.lb = surrogat_model.lb
           /\ surrogat_model'.ub = surrogat_model.ub
           /\ surrogat_model'.dt_cyto = surrogat_model.dt_cyto ]_vars

\* both instances have stepped, differently, and the model has been used
C15_Witness ==
    /\ steps = 2
    /\ Len(other.state) = 1
    /\ Len(predict_TC_list) = 3
    /\ Len(other.predict_TC_list) = 2
    /\ other.time # time
    /\ other.ret.kind = "step"
    /\ ret.kind = "step"
    /\ other.ret.done # ret.done
    /\ ~surrogat_model.training

-----------------------------------------------------------------------------
(* Properties of the observations, of failing calls and of termination *)

\* the state_survival of the entry before the last one, 0 if there is none
PreviousSurvival ==
    IF Len(state) >= 2 THEN state[Len(state) - 1][1] ELSE 0

\* C21: last_state_survival is the state_survival component of the last
\* observation entry, and 0 while the observation list is empty (after
\* construction or reset).  Hence a step with episode index other than 0
\* records as delta its state_survival minus that of the previous entry, and
\* the first step after reset records its state_survival itself, not 0.
C21_LastStateSurvival ==
    /\ Len(state) = 0 => last_state_survival = 0
    /\ Len(state) > 0 => last_state_survival = SeqLast(state)[1]
    /\ (Stepped /\ loc.epi # 0)
          => /\ SeqLast(state)[2] = SeqLast(state)[1] - PreviousSurvival
             /\ Len(state) = 1 => SeqLast(state)[2] = SeqLast(state)[1]

\* a first step of an episode, with episode index 1, that records its
\* state_survival, other than 0, as the delta
C21_Witness ==
    /\ Stepped
    /\ loc.epi # 0
    /\ steps = 1
    /\ Len(state) = 1
    /\ loc.last = 0
    /\ SeqLast(state)[2] # 0
    /\ SeqLast(state)[2] = loc.state_survival
    /\ last_state_survival = loc.state_survival

\* the last call was a step that raised on the lookup of an action index
\* outside its action space (for either drug)
RaisedOnLookup(l) ==
    /\ l.kind = "raise"
    /\ ~InRange(action_c_space, l.action_c) \/ ~InRange(action_I_space, l.action_I)

\* C22: a failing step is not atomic.  When the lookup of an out-of-range
\* action index (of either drug) fails, the call aborts with time already
\* advanced by the interval, while CSF1RI_dose_cum, predict_CSF1RI_cum, the
\* three histories, the observation list and last_state_survival are
\* unchanged; time then differs from the number of recorded observations
\* times the interval.
C22_FailingStep ==
    [][ (lastCall' = "raise" /\ RaisedOnLookup(loc'))
            => /\ time' = time + predict_dt
               /\ CSF1RI_dose_cum' = CSF1RI_dose_cum
               /\ predict_CSF1RI_cum' = predict_CSF1RI_cum
               /\ predict_CSF1RI_list' = predict_CSF1RI_list
               /\ predict_IGF1RI_list' = predict_IGF1RI_list
               /\ predict_TC_list' = predict_TC_list
               /\ state' = state
               /\ last_state_survival' = last_state_survival
               /\ time = Len(state) * predict_dt
               /\ time' # Len(state') * predict_dt
      ]_vars

\* a second step whose IGF1R-inhibitor index is out of range, after a dosed
\* step: time is two intervals, one observation is recorded
C22_Witness ==
    /\ lastCall = "raise"
    /\ RaisedOnLookup(loc)
    /\ InRange(action_c_space, loc.action_c)
    /\ loc.action_c = 1
    /\ Len(state) = 1
    /\ time = 2 * predict_dt
    /\ CSF1RI_dose_cum = predict_dt

\* C23: a step returns done = TRUE if and only if its death probability is
\* at least 0.2 or its cure probability is at least 0.99, whatever the number
\* of steps taken and the time elapsed: there is no step or time limit, and an
\* episode whose densities stay between the thresholds goes on past t_max,
\* the upper bound of the normalisation of time.
C23_DoneIffThreshold ==
    Stepped
        => (ret.done <=> (loc.death_prob >= death_threshold
                            \/ loc.cure_prob >= cure_threshold))

\* a step that is not terminal, in an episode without a terminal step, with
\* time past t_max
C23_Witness ==
    /\ Stepped
    /\ ~ret.done
    /\ ~wasDone
    /\ time > t_max
    /\ surrogat_model.ub[2] = t_max
    /\ steps = Len(state)
    /\ steps * predict_dt = time

====
